---------------------------- MODULE Spec2Model ----------------------------
(***************************************************************************)
(* Model of src/compose/main.js, the browser form of the SPARQL query      *)
(* composer: the start-up loader of the schema documents, the tree builder *)
(* (createItemsRecursively), the configuration serializer                  *)
(* (allInputsToConfigObject), the compose request and the "Open" selector. *)
(*                                                                         *)
(* JSON values are tagged records, DOM elements are records with a         *)
(* sequence of children, texts (innerText, blob contents, request bodies)  *)
(* are tagged records as well.                                             *)
(***************************************************************************)
EXTENDS Integers, Sequences, FiniteSets, TLC

(***************************************************************************)
(* Bounds of the model.                                                    *)
(***************************************************************************)
\* actions of the user in a session: form edits (value change, Add, Delete),
\* clicks on Compose Query and selections in the Open selector
MaxActions == 3

(***************************************************************************)
(* JavaScript / JSON values.                                               *)
(***************************************************************************)
JNull == [t |-> "null"]
JUndef == [t |-> "undefined"]
JStr(s) == [t |-> "str", s |-> s]
JNum(n) == [t |-> "num", n |-> n]
JArr(e) == [t |-> "arr", e |-> e]
\* an object: its keys in insertion order, and the value of each key
JObj(ks, f) == [t |-> "obj", ks |-> ks, f |-> f]
EmptyObj == JObj(<<>>, <<>>)

\* mutant of Truthy: the number 0 counts as true
TruthyWithZero(v) ==
    CASE v.t = "str" -> v.s # ""
      [] v.t = "num" -> TRUE
      [] v.t = "arr" -> TRUE
      [] v.t = "obj" -> TRUE
      [] OTHER -> FALSE

\* JavaScript truthiness, as used by if (x), !x and x || y
Truthy(v) ==
    CASE v.t = "str" -> v.s # ""
      [] v.t = "num" -> v.n # 0
      [] v.t = "arr" -> TRUE
      [] v.t = "obj" -> TRUE
      [] OTHER -> FALSE

\* x || y
OrElse(x, y) == IF Truthy(x) THEN x ELSE y

\* x[k] and x?.[k] for a string key k (undefined when there is no such property)
Get(x, k) ==
    IF x.t = "obj" /\ k \in DOMAIN x.f THEN x.f[k] ELSE JUndef

\* a[i] for a 0-based index i (undefined beyond the length and in a hole)
ArrGet(a, i) ==
    IF a.t = "arr" /\ i + 1 \in DOMAIN a.e THEN a.e[i + 1] ELSE JUndef

\* o[k] = v on an object: a new key is appended to the key order
Put(o, k, v) ==
    IF o.t # "obj" THEN o
    ELSE IF k \in DOMAIN o.f THEN JObj(o.ks, [o.f EXCEPT ![k] = v])
    ELSE JObj(Append(o.ks, k), (k :> v) @@ o.f)

\* a[i] = v on an array for a 0-based index i: the array grows to i + 1
\* elements, the elements skipped are holes (they read as undefined)
ArrSet(a, i, v) ==
    IF a.t # "arr" THEN a
    ELSE JArr([j \in 1..(IF i + 1 > Len(a.e) THEN i + 1 ELSE Len(a.e)) |->
                 IF j = i + 1 THEN v
                 ELSE IF j <= Len(a.e) THEN a.e[j] ELSE JUndef])

\* String(v), as el.value = v converts v
ToStr(v) ==
    CASE v.t = "str" -> v.s
      [] v.t = "num" -> ToString(v.n)
      [] v.t = "null" -> "null"
      [] OTHER -> "undefined"

\* the numbers a number input of the model can hold
NumRange == 0..9

\* the value sanitization of <input type=number>: a text that is no number
\* is replaced by the empty text
SanitizeNumber(s) ==
    IF \E n \in NumRange : ToString(n) = s THEN s ELSE ""

\* Number(s) for the value of a number input ("" converts to 0)
Number(s) ==
    IF s = "" THEN 0 ELSE CHOOSE n \in NumRange : ToString(n) = s

\* JSON.stringify: the text of a value, kept as its JSON reading (a hole or
\* undefined in an array is written as null, an undefined property is left out)
RECURSIVE Stringified(_)
Stringified(v) ==
    CASE v.t = "arr" -> JArr([j \in DOMAIN v.e |->
                                IF v.e[j].t = "undefined" THEN JNull
                                ELSE Stringified(v.e[j])])
      [] v.t = "obj" ->
            LET keep == SelectSeq(v.ks, LAMBDA k : v.f[k].t # "undefined")
            IN JObj(keep, [k \in {keep[j] : j \in DOMAIN keep} |-> Stringified(v.f[k])])
      [] OTHER -> v

(***************************************************************************)
(* The documents the server offers: the schema documents of the form, the  *)
(* list of configurations and the configurations themselves.               *)
(***************************************************************************)
\* an object literal, from its <<key, value>> pairs in order
Obj(pairs) ==
    JObj([j \in DOMAIN pairs |-> pairs[j][1]],
         [k \in {pairs[j][1] : j \in DOMAIN pairs} |->
             pairs[CHOOSE j \in DOMAIN pairs : pairs[j][1] = k][2]])

\* /structure.json: object, list, string and number nodes
StructureDoc ==
    Obj(<< <<"name", JStr("")>>,
           <<"mode", JStr("")>>,
           <<"box", Obj(<< <<"limit", JNum(0)>> >>)>>,
           <<"tags", JArr(<<JStr("")>>)>>,
           <<"pois", JArr(<<Obj(<< <<"file", JStr("")>>,
                                   <<"vals", JArr(<<JNum(0)>>)>> >>)>>)>> >>)

\* /descriptions.json: path string -> [name, description]
DescriptionsDoc ==
    ("name" :> <<"Name", "name of the query">>) @@
    ("pois:_" :> <<"POI", "a point of interest">>)

\* /selects.json: path string -> [options, default option], an option being
\* [value, description]
SelectsDoc ==
    ("mode" :> [opts |-> << <<"", "none">>, <<"fast", "quick">>, <<"slow", "">> >>,
                def |-> JStr("fast")]) @@
    ("pois:_:file" :> [opts |-> << <<"", "">>, <<"a.rq", "">> >>, def |-> JNull])

\* /defaults.json: path string -> default value
DefaultsDoc ==
    ("box:limit" :> JNum(2)) @@
    ("tags:_" :> JStr("x")) @@
    ("pois" :> Obj(<< <<"file", JStr("a.rq")>>, <<"vals", JArr(<<JNum(1)>>)>> >>))

\* /configs.json: the options of the Open selector
ConfigsDoc ==
    << <<"blank_compose.json", "">>, <<"a_compose.json", "">>, <<"z_compose.json", "">> >>

\* /default_input
DefaultInputText == "blank_compose.json"

ConfigNames == {ConfigsDoc[j][1] : j \in DOMAIN ConfigsDoc}

\* "/" + name: the configuration documents
ConfigDoc(name) ==
    CASE name = "a_compose.json" ->
            Obj(<< <<"name", JStr("a")>>,
                   <<"mode", JStr("slow")>>,
                   <<"box", Obj(<< <<"limit", JNum(3)>> >>)>>,
                   <<"tags", JArr(<<JStr("u"), JStr("v")>>)>>,
                   <<"pois", JArr(<<Obj(<< <<"file", JStr("a.rq")>>,
                                           <<"vals", JArr(<<JNum(1)>>)>> >>)>>)>> >>)
      [] name = "z_compose.json" ->
            Obj(<< <<"name", JStr("")>>,
                   <<"mode", JStr("zz")>>,
                   <<"box", Obj(<< <<"limit", JNum(0)>> >>)>>,
                   <<"tags", JArr(<<JStr("")>>)>>,
                   <<"pois", JArr(<<Obj(<< <<"file", JStr("c.rq")>> >>)>>)>>,
                   <<"extra", JStr("not in the schema")>> >>)
      [] OTHER ->
            Obj(<< <<"name", JNull>>,
                   <<"mode", JNull>>,
                   <<"box", Obj(<< <<"limit", JNull>> >>)>>,
                   <<"tags", JArr(<<>>)>>,
                   <<"pois", JArr(<<>>)>> >>)

(***************************************************************************)
(* The state of the page.                                                  *)
(***************************************************************************)
VARIABLES
    \* the script's globals (lines 25-39)
    structure, descriptions, selects, defaults, all_configs,
    default_config_name, current_config,
    main,           \* the element #main with the form in it
    i_inp,          \* the Open selector
    json_pre, json_dl, json_dl_btn,     \* the Output JSON item
    rq_pre, rq_dl, rq_dl_btn,           \* the Output SPARQL item
    \* the asynchronous functions in flight
    pc,             \* position of the start-up function
    fetchLog,       \* URLs the start-up function has requested, in order
    posts,          \* compose runs waiting for the answer to their POST
    opens,          \* onchange runs waiting for their configuration
    \* history
    loaded,         \* the data the form in #main was last built from
    shown,          \* the name of the configuration it belongs to
    edits,          \* form edits since then
    clicks,         \* clicks on Compose Query so far
    nposts,         \* POST requests sent so far
    actions,        \* actions of the user so far
    ev              \* the handler that ran last, and what it was given

vars ==
    << structure, descriptions, selects, defaults, all_configs,
       default_config_name, current_config, main, i_inp,
       json_pre, json_dl, json_dl_btn, rq_pre, rq_dl, rq_dl_btn,
       pc, fetchLog, posts, opens, loaded, shown, edits, clicks, nposts,
       actions, ev >>

(***************************************************************************)
(* DOM elements.                                                           *)
(***************************************************************************)
\* an element: tag, data-key ("" when it has none), children; for inputs and
\* selects the type, value and option values; for buttons and headers the
\* text; for the <ol> of a list the context captured by its addListEntry
\* closure (the counter i, path, item and defaultData)
El(tag, key, kids) ==
    [tag |-> tag, key |-> key, kids |-> kids, type |-> "", value |-> "",
     opts |-> <<>>, i |-> 0, path |-> <<>>, item |-> JUndef, dflt |-> JUndef]

AppendKids(el, more) == [el EXCEPT !.kids = @ \o more]

\* the entries of a path: an element (its data-key) or a list counter
PathEl(el) == [kind |-> "el", key |-> el.key, num |-> 0]
PathNum(n) == [kind |-> "num", key |-> "", num |-> n]

RECURSIVE Join(_, _)
Join(parts, sep) ==
    IF parts = <<>> THEN ""
    ELSE IF Len(parts) = 1 THEN parts[1]
    ELSE parts[1] \o sep \o Join(Tail(parts), sep)

\* k = "" stands for the default k = null
pathToString(path, k) ==
    LET pinterm == [j \in DOMAIN path |->
                       IF path[j].kind = "el" /\ path[j].key # ""
                       THEN path[j].key ELSE "_"]
    IN Join(IF k # "" THEN Append(pinterm, k) ELSE pinterm, ":")

desc(path, k) ==
    LET pstr == pathToString(path, k)
    IN IF pstr \in DOMAIN descriptions THEN descriptions[pstr] ELSE <<pstr, "?">>

\* doc?.[k] on a fetched document
Lookup(doc, k) == IF k \in DOMAIN doc THEN doc[k] ELSE JUndef

createItem(key, name, description, small) ==
    [El(IF small THEN "DIV" ELSE "DETAILS", key, <<>>) EXCEPT
        !.kids = << [El(IF small THEN "DIV" ELSE "SUMMARY", "", <<>>) EXCEPT
                        !.value = name \o " " \o description] >>]

\* mutant of SelectedValue: no option is marked selected
SelectedValueFirst(options, selected) ==
    IF options # <<>> THEN options[1][1] ELSE ""

\* the value of a select built from these options: the option marked
\* selected, else the first option, else ""
SelectedValue(options, selected) ==
    IF selected.t = "str" /\ \E j \in DOMAIN options : options[j][1] = selected.s
    THEN selected.s
    ELSE IF options # <<>> THEN options[1][1] ELSE ""

createSelect(options, selected) ==
    [El("SELECT", "", <<>>) EXCEPT
        !.opts = [j \in DOMAIN options |-> options[j][1]],
        !.value = SelectedValue(options, selected)]

\* <li><details>header, Delete button</details></li>
createListElItem(name, description) ==
    El("LI", "",
       << AppendKids(createItem("", name, description, FALSE),
                     << [El("BUTTON", "", <<>>) EXCEPT !.value = "Delete"] >>) >>)

(***************************************************************************)
(* The tree builder.  createItemsRecursively appends elements to `current` *)
(* and may extend the options held in `selects` (line 292): the operators  *)
(* return the appended children together with the resulting selects.       *)
(* The Preview button of a select of query files (lines 300-340) holds no  *)
(* input and is left out.                                                  *)
(***************************************************************************)
RECURSIVE createItemsRecursively(_, _, _, _)
RECURSIVE ObjectItems(_, _, _, _, _)
RECURSIVE addListEntry(_, _, _)
RECURSIVE ListEntries(_, _, _, _)
RECURSIVE ListEntriesBackwards(_, _, _, _)

isSmall(item) == item.t \in {"str", "num"}

\* mutant of StringInput: a select only when the data names one of the options
StringInputSelectIfKnown(path, data, sel) ==
    LET ps == pathToString(path, "")
        known == /\ ps \in DOMAIN sel
                 /\ \E j \in DOMAIN sel[ps].opts :
                       data.t = "str" /\ sel[ps].opts[j][1] = data.s
    IN IF known
       THEN [kids |-> <<createSelect(sel[ps].opts, data)>>, sel |-> sel]
       ELSE LET defaultValue == Lookup(defaults, ps)
                value == IF Truthy(data) THEN ToStr(data)
                         ELSE IF Truthy(defaultValue) THEN ToStr(defaultValue)
                         ELSE ""
            IN [kids |-> <<[El("INPUT", "", <<>>) EXCEPT
                               !.type = "text", !.value = value]>>,
                sel |-> sel]

\* lines 278-354: a select when selects has options for the path, else a text
StringInput(path, data, sel) ==
    LET ps == pathToString(path, "")
    IN IF ps \in DOMAIN sel
       THEN LET select == sel[ps]
                val == IF Truthy(data) THEN data ELSE select.def
                known == \E j \in DOMAIN select.opts :
                            data.t = "str" /\ select.opts[j][1] = data.s
                options == IF Truthy(data) /\ ~known
                           THEN Append(select.opts, <<ToStr(data), "">>)
                           ELSE select.opts
            IN [kids |-> <<createSelect(options, val)>>,
                sel |-> [sel EXCEPT ![ps].opts = options]]
       ELSE LET defaultValue == Lookup(defaults, ps)
                value == IF Truthy(data) THEN ToStr(data)
                         ELSE IF Truthy(defaultValue) THEN ToStr(defaultValue)
                         ELSE ""
            IN [kids |-> <<[El("INPUT", "", <<>>) EXCEPT
                               !.type = "text", !.value = value]>>,
                sel |-> sel]

\* mutant of NumberInput: the data is tested with if (data), as for a text
NumberInputIfData(path, data, sel) ==
    LET defaultValue == Lookup(defaults, pathToString(path, ""))
        v == IF Truthy(data) THEN data ELSE OrElse(defaultValue, JNum(0))
    IN [kids |-> <<[El("INPUT", "", <<>>) EXCEPT
                       !.type = "number", !.value = SanitizeNumber(ToStr(v))]>>,
        sel |-> sel]

\* lines 355-368
NumberInput(path, data, sel) ==
    LET defaultValue == Lookup(defaults, pathToString(path, ""))
        v == IF data.t \notin {"null", "undefined"}
             THEN OrElse(data, JNum(0))
             ELSE OrElse(defaultValue, JNum(0))
    IN [kids |-> <<[El("INPUT", "", <<>>) EXCEPT
                       !.type = "number", !.value = SanitizeNumber(ToStr(v))]>>,
        sel |-> sel]

\* lines 249-259: list is the <ol>, which carries the closure's context
addListEntry(list, data_, sel) ==
    LET d == desc(list.path, "_")
        listEntryEl == createListElItem(d[1], d[2])
        sub == createItemsRecursively(Append(list.path, PathNum(list.i)),
                                      list.item,
                                      IF data_.t = "undefined" THEN JNull ELSE data_,
                                      sel)
        filled == [listEntryEl EXCEPT !.kids[1] = AppendKids(@, sub.kids)]
    IN [list |-> [list EXCEPT !.kids = Append(@, filled), !.i = @ + 1],
        sel |-> sub.sel]

\* mutant of ListEntries: the elements are taken from the last to the first
ListEntriesBackwards(list, elems, j, sel) ==
    IF j > Len(elems) THEN [list |-> list, sel |-> sel]
    ELSE LET one == addListEntry(list, elems[Len(elems) + 1 - j], sel)
         IN ListEntriesBackwards(one.list, elems, j + 1, one.sel)

\* lines 273-276: for (let k of data) addListEntry(k), from the j-th element
ListEntries(list, elems, j, sel) ==
    IF j > Len(elems) THEN [list |-> list, sel |-> sel]
    ELSE LET one == addListEntry(list, elems[j], sel)
         IN ListEntries(one.list, elems, j + 1, one.sel)

\* lines 221-232: for (let k of Object.keys(item)), from the j-th key
ObjectItems(path, item, data, sel, j) ==
    IF j > Len(item.ks) THEN [kids |-> <<>>, sel |-> sel]
    ELSE LET k == item.ks[j]
             d == desc(path, k)
             el == createItem(k, d[1], d[2], isSmall(item.f[k]))
             sub == createItemsRecursively(Append(path, PathEl(el)),
                                           item.f[k], Get(data, k), sel)
             rest == ObjectItems(path, item, data, sub.sel, j + 1)
         IN [kids |-> <<AppendKids(el, sub.kids)>> \o rest.kids,
             sel |-> rest.sel]

\* lines 233-276: createListItem, the Add button and the entries of the data
ListItem(path, item, data, sel) ==
    LET list == [El("OL", "", <<>>) EXCEPT
                    !.path = path,
                    !.item = IF item.e # <<>> THEN item.e[1] ELSE JUndef,
                    !.dflt = Lookup(defaults, pathToString(path, ""))]
        dName == desc(path, "_")[1]
        add_btn == [El("BUTTON", "", <<>>) EXCEPT
                       !.value = "+ Add" \o
                                 (IF dName # "" THEN " " \o dName ELSE "")]
        filled == IF Truthy(data) /\ data.t = "arr"
                  THEN ListEntries(list, data.e, 1, sel)
                  ELSE [list |-> list, sel |-> sel]
    IN [kids |-> <<filled.list, add_btn>>, sel |-> filled.sel]

createItemsRecursively(path, item, data, sel) ==
    CASE item.t = "obj" -> ObjectItems(path, item, data, sel, 1)
      [] item.t = "arr" -> ListItem(path, item, data, sel)
      [] item.t = "str" -> StringInput(path, data, sel)
      [] item.t = "num" -> NumberInput(path, data, sel)
      [] OTHER -> [kids |-> <<>>, sel |-> sel]

\* line 371, on the element #main
loadDocStructureFromObject(m, data, sel) ==
    LET built == createItemsRecursively(<<>>, structure,
                                        IF data.t = "undefined" THEN JNull ELSE data,
                                        sel)
    IN [main |-> AppendKids(m, built.kids), sel |-> built.sel]

(***************************************************************************)
(* The configuration serializer, lines 143-214.  An element of the form is *)
(* addressed by its position: the child indices on the way down from #main.*)
(* The index n of the code is <<>> for null and <<i>> for the number i.    *)
(***************************************************************************)
RECURSIVE NodeAt(_, _)
NodeAt(root, pos) ==
    IF pos = <<>> THEN root ELSE NodeAt(root.kids[Head(pos)], Tail(pos))

RECURSIVE ControlsBelow(_, _, _)
RECURSIVE ControlsOfKids(_, _, _, _)
\* $$("#main [data-key] select, #main [data-key] input"): the positions, in
\* document order, of the inputs and selects below an element with a
\* data-key; keyed tells whether such an element is above node
ControlsBelow(node, pos, keyed) ==
    IF node.tag \in {"INPUT", "SELECT"}
    THEN IF keyed THEN <<pos>> ELSE <<>>
    ELSE ControlsOfKids(node, pos, keyed \/ (pos # <<>> /\ node.key # ""), 1)

ControlsOfKids(node, pos, keyed, j) ==
    IF j > Len(node.kids) THEN <<>>
    ELSE ControlsBelow(node.kids[j], Append(pos, j), keyed)
         \o ControlsOfKids(node, pos, keyed, j + 1)

Controls(root) == ControlsBelow(root, <<>>, FALSE)

\* mutant of InputValue: the value of a number input is not converted
InputValueAsText(el) == JStr(el.value)

\* lines 149-152
InputValue(el) ==
    IF el.tag = "INPUT" /\ el.type = "number"
    THEN JNum(Number(el.value))
    ELSE JStr(el.value)

\* mutant of PreviousSiblings: the entry itself is counted
PreviousSiblingsAndSelf(j) == j

\* lines 167-169: the number of previous siblings of the child at index j
PreviousSiblings(j) == j - 1

RECURSIVE Climb(_, _, _, _, _)
\* lines 156-173, with currentEl the element at the first k indices of pos;
\* currentEl is main when k = 0
Climb(root, pos, k, path, n) ==
    IF k = 0 THEN [path |-> path, n |-> n]
    ELSE LET currentEl == NodeAt(root, SubSeq(pos, 1, k))
             hasKey == currentEl.key # ""
             path1 == IF hasKey
                      THEN Append(path, [idx |-> n, key |-> currentEl.key])
                      ELSE path
             n1 == IF hasKey THEN <<>> ELSE n
             n2 == IF currentEl.tag = "LI"
                   THEN <<PreviousSiblings(pos[k])>> ELSE n1
         IN Climb(root, pos, k - 1, path1, n2)

Reverse(s) == [j \in DOMAIN s |-> s[Len(s) + 1 - j]]

\* lines 155-182: the path of an input, parent first
KeyPath(root, pos) ==
    LET up == Climb(root, pos, Len(pos), <<>>, <<>>)
        path == Reverse(up.path)
    IN IF up.n # <<>> /\ path # <<>>
       THEN [path EXCEPT ![Len(path)].idx = up.n]
       ELSE path

RECURSIVE Descend(_, _, _, _, _)
\* lines 184-211: go down path from currentRes, creating what is missing,
\* and write val at [pindex, last]
Descend(currentRes, path, pindex, last, val) ==
    IF path = <<>>
    THEN IF pindex = <<>>
         THEN Put(currentRes, last, OrElse(val, JNull))
         ELSE LET old == Get(currentRes, last)
                  arr == IF ~Truthy(old) THEN JArr(<<>>) ELSE old
              IN Put(currentRes, last, ArrSet(arr, pindex[1], OrElse(val, JNull)))
    ELSE LET psegment == Head(path).key
             old == Get(currentRes, psegment)
         IN IF Head(path).idx # <<>>
            THEN LET at == Head(path).idx[1]
                     arr == IF ~Truthy(old) THEN JArr(<<>>) ELSE old
                     ent == IF ~Truthy(ArrGet(arr, at)) THEN EmptyObj
                            ELSE ArrGet(arr, at)
                 IN Put(currentRes, psegment,
                        ArrSet(arr, at, Descend(ent, Tail(path), pindex, last, val)))
            ELSE LET obj == IF ~Truthy(old) THEN EmptyObj ELSE old
                 IN Put(currentRes, psegment,
                        Descend(obj, Tail(path), pindex, last, val))

\* one turn of the loop of line 147, for the input at pos
AddInput(res, root, pos) ==
    LET path == KeyPath(root, pos)
        lastSeg == path[Len(path)]
    IN IF path = <<>> THEN res
       ELSE Descend(res, SubSeq(path, 1, Len(path) - 1),
                    lastSeg.idx, lastSeg.key, InputValue(NodeAt(root, pos)))

RECURSIVE AddInputs(_, _, _, _)
AddInputs(res, root, all, j) ==
    IF j > Len(all) THEN res
    ELSE AddInputs(AddInput(res, root, all[j]), root, all, j + 1)

allInputsToConfigObject(root) == AddInputs(EmptyObj, root, Controls(root), 1)

(***************************************************************************)
(* Texts and the output items.                                             *)
(***************************************************************************)
Undefined == [k |-> "undefined"]
Text(s) == [k |-> "text", s |-> s]
\* JSON.stringify(result, null, 2)
JsonText(v) == [k |-> "json", v |-> Stringified(v)]
\* the text the server answers to the POST of body with this status
ResponseText(status, body) == [k |-> "response", status |-> status, body |-> body]
\* URL.createObjectURL(new Blob([text]))
BlobUrl(text) == [k |-> "blob", of |-> text]

\* line 429: the status of a successful request
OkStatus == 200
\* the statuses the server answers with
Statuses == {OkStatus, 400}

\* lines 96-110 and 135-140: the fresh items createOutputItems creates
NewPre == [innerText |-> Text("Please click 'Compose Query' first."), error |-> FALSE]
NewBtn == [display |-> "none"]
NewDl == [href |-> Text("blob:"), download |-> ""]

\* lines 403-405 and 441-443: the download file names
JsonFileName(config) ==
    IF config # "blank_compose.json" THEN config ELSE "compose_spatial.json"
RqFileName(config) ==
    CASE config = "blank_compose.json" -> "compose_spatial.rq"
      [] config = "a_compose.json" -> "a.rq"
      [] config = "z_compose.json" -> "z.rq"
      [] OTHER -> config

\* main.innerHTML = "Loading..." and main.innerHTML = ""
EmptyMain == El("MAIN", "", <<>>)
LoadingMain == El("MAIN", "", <<[El("#text", "", <<>>) EXCEPT !.value = "Loading..."]>>)

Event(op, pos, status) == [op |-> op, pos |-> pos, status |-> status]

(***************************************************************************)
(* The initial state: the script has run (lines 20-39, 448, 467-472), the  *)
(* start-up function waits for the answer to its first request.            *)
(***************************************************************************)
Init ==
    /\ structure = EmptyObj
    /\ descriptions = <<>>
    /\ selects = <<>>
    /\ defaults = <<>>
    /\ all_configs = <<>>
    /\ default_config_name = "blank_compose.json"
    /\ current_config = EmptyObj
    /\ main = EmptyMain
    /\ i_inp = Undefined
    /\ json_pre = Undefined /\ json_dl = Undefined /\ json_dl_btn = Undefined
    /\ rq_pre = Undefined /\ rq_dl = Undefined /\ rq_dl_btn = Undefined
    /\ pc = "structure"
    /\ fetchLog = <<"/structure.json">>
    /\ posts = <<>>
    /\ opens = <<>>
    /\ loaded = JUndef
    /\ shown = ""
    /\ edits = 0
    /\ clicks = 0
    /\ nposts = 0
    /\ actions = 0
    /\ ev = Event("script", <<>>, 0)

(***************************************************************************)
(* Start-up, lines 125-133 and 467-472: each action is the resumption of   *)
(* the function after one await.                                           *)
(***************************************************************************)
formVars == <<main, selects, loaded, shown, edits>>
outputVars == <<json_pre, json_dl, json_dl_btn, rq_pre, rq_dl, rq_dl_btn>>
docVars == <<structure, descriptions, defaults, all_configs,
             default_config_name, current_config>>
countVars == <<clicks, nposts, actions>>

\* what every step of loadUIConfig leaves alone
LoadFrame ==
    /\ UNCHANGED <<main, i_inp, outputVars, posts, opens, loaded, shown, edits,
                   countVars>>
    /\ ev' = Event("load", <<>>, 0)

LoadStructure ==
    /\ pc = "structure"
    /\ structure' = StructureDoc
    /\ fetchLog' = Append(fetchLog, "/descriptions.json")
    /\ pc' = "descriptions"
    /\ UNCHANGED <<descriptions, selects, defaults, all_configs,
                   default_config_name, current_config>>
    /\ LoadFrame

LoadDescriptions ==
    /\ pc = "descriptions"
    /\ descriptions' = DescriptionsDoc
    /\ fetchLog' = Append(fetchLog, "/selects.json")
    /\ pc' = "selects"
    /\ UNCHANGED <<structure, selects, defaults, all_configs,
                   default_config_name, current_config>>
    /\ LoadFrame

LoadSelects ==
    /\ pc = "selects"
    /\ selects' = SelectsDoc
    /\ fetchLog' = Append(fetchLog, "/defaults.json")
    /\ pc' = "defaults"
    /\ UNCHANGED <<structure, descriptions, defaults, all_configs,
                   default_config_name, current_config>>
    /\ LoadFrame

\* mutant of LoadDefaults: start-up goes on without the defaults document
LoadDefaultsSkipped ==
    /\ pc = "defaults"
    /\ fetchLog' = Append(fetchLog, "/configs.json")
    /\ pc' = "all_configs"
    /\ UNCHANGED <<structure, descriptions, selects, defaults, all_configs,
                   default_config_name, current_config>>
    /\ LoadFrame

LoadDefaults ==
    /\ pc = "defaults"
    /\ defaults' = DefaultsDoc
    /\ fetchLog' = Append(fetchLog, "/configs.json")
    /\ pc' = "all_configs"
    /\ UNCHANGED <<structure, descriptions, selects, all_configs,
                   default_config_name, current_config>>
    /\ LoadFrame

LoadConfigs ==
    /\ pc = "all_configs"
    /\ all_configs' = ConfigsDoc
    /\ fetchLog' = Append(fetchLog, "/default_input")
    /\ pc' = "default_config_name"
    /\ UNCHANGED <<structure, descriptions, selects, defaults,
                   default_config_name, current_config>>
    /\ LoadFrame

LoadDefaultInput ==
    /\ pc = "default_config_name"
    /\ default_config_name' = DefaultInputText
    /\ fetchLog' = Append(fetchLog, "/" \o DefaultInputText)
    /\ pc' = "current_config"
    /\ UNCHANGED <<structure, descriptions, selects, defaults, all_configs,
                   current_config>>
    /\ LoadFrame

\* line 132, then lines 469-471 without another await
LoadCurrentConfig ==
    /\ pc = "current_config"
    /\ current_config' = ConfigDoc(default_config_name)
    /\ LET built == loadDocStructureFromObject(main, ConfigDoc(default_config_name),
                                               selects)
       IN /\ main' = built.main
          /\ selects' = built.sel
    /\ i_inp' = createSelect(all_configs, JStr(default_config_name))
    /\ json_pre' = NewPre /\ json_dl' = NewDl /\ json_dl_btn' = NewBtn
    /\ rq_pre' = NewPre /\ rq_dl' = NewDl /\ rq_dl_btn' = NewBtn
    /\ loaded' = ConfigDoc(default_config_name)
    /\ shown' = default_config_name
    /\ edits' = 0
    /\ pc' = "ready"
    /\ ev' = Event("start", <<>>, 0)
    /\ UNCHANGED <<structure, descriptions, defaults, all_configs,
                   default_config_name, fetchLog, posts, opens, countVars>>

(***************************************************************************)
(* Compose, lines 394-446.                                                 *)
(***************************************************************************)
\* lines 394-411: the texts generateConfig writes; res_json is returned
generateConfig ==
    LET res_json == JsonText(allInputsToConfigObject(main))
    IN [res_json |-> res_json,
        json_pre |-> [json_pre EXCEPT !.innerText = res_json],
        json_dl |-> [href |-> BlobUrl(res_json),
                     download |-> JsonFileName(i_inp.value)],
        json_dl_btn |-> [display |-> ""]]

\* a click on Compose Query: lines 424-428 up to the await.  Before the
\* output items exist rq_pre is undefined and line 425 throws.
ComposeClick ==
    /\ actions < MaxActions
    /\ actions' = actions + 1
    /\ clicks' = clicks + 1
    /\ IF rq_pre = Undefined
       THEN /\ ev' = Event("compose threw", <<>>, 0)
            /\ UNCHANGED <<outputVars, posts, nposts>>
       ELSE LET g == generateConfig
            IN /\ rq_pre' = [rq_pre EXCEPT !.error = FALSE]
               /\ rq_dl_btn' = [display |-> ""]
               /\ json_pre' = g.json_pre
               /\ json_dl' = g.json_dl
               /\ json_dl_btn' = g.json_dl_btn
               /\ posts' = Append(posts, [body |-> g.res_json])
               /\ nposts' = nposts + 1
               /\ rq_dl' = rq_dl
               /\ ev' = Event("compose", <<>>, 0)
    /\ UNCHANGED <<docVars, formVars, i_inp, pc, fetchLog, opens>>

RemoveIndex(s, j) == SubSeq(s, 1, j - 1) \o SubSeq(s, j + 1, Len(s))

\* lines 429-445, given res and the text String(s) of s = res?.[1]
ComposeRest(ok, s, status) ==
    /\ rq_pre' = [innerText |-> s, error |-> IF ok THEN rq_pre.error ELSE TRUE]
    /\ rq_dl_btn' = IF ok THEN rq_dl_btn ELSE [display |-> "none"]
    /\ rq_dl' = [href |-> BlobUrl(s), download |-> RqFileName(i_inp.value)]
    /\ ev' = Event(IF status = 0 THEN "compose rejected" ELSE "compose answered",
                   <<>>, status)
    /\ UNCHANGED <<docVars, formVars, i_inp, json_pre, json_dl, json_dl_btn,
                   pc, fetchLog, opens, countVars>>

\* the answer to the POST of the j-th waiting run arrives: line 421 resolves
\* to [r.status, await r.text()]
ComposeAnswered(j, status) ==
    /\ j \in DOMAIN posts
    /\ status \in Statuses
    /\ posts' = RemoveIndex(posts, j)
    /\ ComposeRest(status = OkStatus, ResponseText(status, posts[j].body), status)

\* the fetch of the j-th waiting run rejects: catch(_id) resolves to the
\* error, res?.[0] and res?.[1] are undefined
ComposeRejected(j) ==
    /\ j \in DOMAIN posts
    /\ posts' = RemoveIndex(posts, j)
    /\ ComposeRest(FALSE, Text("undefined"), 0)

(***************************************************************************)
(* The Open selector, lines 450-465.                                       *)
(***************************************************************************)
\* the user selects another configuration: onchange up to its await
OpenChange(name) ==
    /\ i_inp # Undefined
    /\ actions < MaxActions
    /\ \E j \in DOMAIN i_inp.opts : i_inp.opts[j] = name
    /\ name # i_inp.value
    /\ i_inp' = [i_inp EXCEPT !.value = name]
    /\ main' = LoadingMain
    /\ opens' = Append(opens, [url |-> "/" \o name, name |-> name])
    /\ actions' = actions + 1
    /\ ev' = Event("open", <<>>, 0)
    /\ UNCHANGED <<docVars, selects, loaded, shown, edits, outputVars, pc,
                   fetchLog, posts, clicks, nposts>>

\* the configuration of the j-th waiting run arrives: lines 458-461
OpenLoaded(j) ==
    /\ j \in DOMAIN opens
    /\ opens' = RemoveIndex(opens, j)
    /\ LET data == ConfigDoc(opens[j].name)
           built == loadDocStructureFromObject(EmptyMain, data, selects)
       IN /\ main' = built.main
          /\ selects' = built.sel
          /\ loaded' = data
    /\ shown' = opens[j].name
    /\ edits' = 0
    /\ json_pre' = NewPre /\ json_dl' = NewDl /\ json_dl_btn' = NewBtn
    /\ rq_pre' = NewPre /\ rq_dl' = NewDl /\ rq_dl_btn' = NewBtn
    /\ ev' = Event("opened", <<>>, 0)
    /\ UNCHANGED <<docVars, i_inp, pc, fetchLog, posts, countVars>>

(***************************************************************************)
(* The user's actions on the form.                                         *)
(***************************************************************************)
RECURSIVE PositionsBelow(_, _)
\* the positions of all elements below node, node at pos included
PositionsBelow(node, pos) ==
    {pos} \cup UNION {PositionsBelow(node.kids[j], Append(pos, j)) :
                        j \in DOMAIN node.kids}

RECURSIVE ReplaceAt(_, _, _)
ReplaceAt(root, pos, new) ==
    IF pos = <<>> THEN new
    ELSE [root EXCEPT !.kids[Head(pos)] = ReplaceAt(@, Tail(pos), new)]

RECURSIVE RemoveAtLast(_, _)
\* mutant of RemoveAt: the last entry of the list is removed
RemoveAtLast(root, pos) ==
    IF Len(pos) = 1 THEN [root EXCEPT !.kids = SubSeq(@, 1, Len(@) - 1)]
    ELSE [root EXCEPT !.kids[Head(pos)] = RemoveAtLast(@, Tail(pos))]

RECURSIVE RemoveAt(_, _)
RemoveAt(root, pos) ==
    IF Len(pos) = 1 THEN [root EXCEPT !.kids = RemoveIndex(@, pos[1])]
    ELSE [root EXCEPT !.kids[Head(pos)] = RemoveAt(@, Tail(pos))]

\* the texts and numbers the user types
TypedTexts == {"", "a"}
TypedNumbers == {"", "0", "5"}

\* what the user can set the control el to
Choices(el) ==
    IF el.tag = "SELECT" THEN {el.opts[j] : j \in DOMAIN el.opts}
    ELSE IF el.type = "number" THEN TypedNumbers
    ELSE TypedTexts

EditFrame ==
    /\ actions < MaxActions
    /\ actions' = actions + 1
    /\ edits' = edits + 1
    /\ UNCHANGED <<docVars, i_inp, outputVars, pc, fetchLog, posts, opens,
                   loaded, shown, clicks, nposts>>

\* the user changes the value of the input or select at pos
EditInput(pos, v) ==
    /\ pos \in PositionsBelow(main, <<>>)
    /\ NodeAt(main, pos).tag \in {"INPUT", "SELECT"}
    /\ v \in Choices(NodeAt(main, pos))
    /\ v # NodeAt(main, pos).value
    /\ main' = ReplaceAt(main, pos, [NodeAt(main, pos) EXCEPT !.value = v])
    /\ ev' = Event("edit", pos, 0)
    /\ UNCHANGED selects
    /\ EditFrame

\* mutant of AddClick: the entry is built without the defaults entry
AddClickNoDefault(pos) ==
    /\ pos \in PositionsBelow(main, <<>>)
    /\ NodeAt(main, pos).tag = "OL"
    /\ LET list == NodeAt(main, pos)
           added == addListEntry(list, JNull, selects)
       IN /\ main' = ReplaceAt(main, pos, added.list)
          /\ selects' = added.sel
    /\ ev' = Event("add", pos, 0)
    /\ EditFrame

\* a click on the Add button of the list whose <ol> is at pos: line 263
AddClick(pos) ==
    /\ pos \in PositionsBelow(main, <<>>)
    /\ NodeAt(main, pos).tag = "OL"
    /\ LET list == NodeAt(main, pos)
           added == addListEntry(list, list.dflt, selects)
       IN /\ main' = ReplaceAt(main, pos, added.list)
          /\ selects' = added.sel
    /\ ev' = Event("add", pos, 0)
    /\ EditFrame

\* mutant of DeleteClick: the content of the entry is removed, the <li> stays
DeleteClickKeepsLi(pos) ==
    /\ pos \in PositionsBelow(main, <<>>)
    /\ NodeAt(main, pos).tag = "LI"
    /\ main' = ReplaceAt(main, pos, [NodeAt(main, pos) EXCEPT !.kids = <<>>])
    /\ ev' = Event("delete", pos, 0)
    /\ UNCHANGED selects
    /\ EditFrame

\* a click on the Delete button of the list entry (<li>) at pos: line 91
DeleteClick(pos) ==
    /\ pos \in PositionsBelow(main, <<>>)
    /\ NodeAt(main, pos).tag = "LI"
    /\ main' = RemoveAt(main, pos)
    /\ ev' = Event("delete", pos, 0)
    /\ UNCHANGED selects
    /\ EditFrame

(***************************************************************************)
(* The specification.                                                      *)
(***************************************************************************)
Next ==
    \/ LoadStructure
    \/ LoadDescriptions
    \/ LoadSelects
    \/ LoadDefaults
    \/ LoadConfigs
    \/ LoadDefaultInput
    \/ LoadCurrentConfig
    \/ ComposeClick
    \/ \E j \in DOMAIN posts, status \in Statuses : ComposeAnswered(j, status)
    \/ \E j \in DOMAIN posts : ComposeRejected(j)
    \/ \E name \in ConfigNames : OpenChange(name)
    \/ \E j \in DOMAIN opens : OpenLoaded(j)
    \/ \E pos \in PositionsBelow(main, <<>>) :
          \E v \in Choices(NodeAt(main, pos)) : EditInput(pos, v)
    \/ \E pos \in PositionsBelow(main, <<>>) : AddClick(pos)
    \/ \E pos \in PositionsBelow(main, <<>>) : DeleteClick(pos)

Spec == Init /\ [][Next]_vars

(***************************************************************************)
(* Reading the form and a document by position, for the properties.        *)
(***************************************************************************)
KeySeg(k) == [k |-> "key", key |-> k, idx |-> 0]
IdxSeg(n) == [k |-> "idx", key |-> "", idx |-> n]

RECURSIVE PlaceBelow(_, _, _)
\* the place of the element at pos, read from the root down: the data-key
\* of every element on the way and, for every list entry on the way, the
\* number of entries before it; top is TRUE at #main itself
PlaceBelow(node, pos, top) ==
    LET here == IF top THEN <<>>
                ELSE IF node.key # "" THEN <<KeySeg(node.key)>>
                ELSE <<>>
    IN IF pos = <<>> THEN here
       ELSE LET child == node.kids[Head(pos)]
                entry == IF child.tag = "LI"
                         THEN <<IdxSeg(Cardinality({j \in 1..(Head(pos) - 1) :
                                                      node.kids[j].tag = "LI"}))>>
                         ELSE <<>>
            IN here \o entry \o PlaceBelow(child, Tail(pos), FALSE)

Place(pos) == PlaceBelow(main, pos, TRUE)

RECURSIVE ValueAt(_, _)
\* the value of document doc at a place
ValueAt(doc, place) ==
    IF place = <<>> THEN doc
    ELSE IF Head(place).k = "key"
         THEN ValueAt(Get(doc, Head(place).key), Tail(place))
         ELSE ValueAt(ArrGet(doc, Head(place).idx), Tail(place))

\* the path string of a place: its keys, "_" for a list entry
PlaceString(place) ==
    Join([j \in DOMAIN place |->
             IF place[j].k = "key" THEN place[j].key ELSE "_"], ":")

\* the value the serializer writes for a control: falsy values become null
Written(el) == OrElse(InputValue(el), JNull)

ControlSet == {Controls(main)[j] : j \in DOMAIN Controls(main)}

\* the form in #main is the one built from `loaded`, not edited since
Pristine == loaded # JUndef /\ edits = 0 /\ main # LoadingMain /\ main # EmptyMain

RECURSIVE Conforms(_, _)
\* data has the shape of the schema item: the keys of every object, lists
\* for lists, strings or null for strings, numbers or null for numbers
Conforms(item, data) ==
    CASE item.t = "obj" -> /\ data.t = "obj"
                           /\ data.ks = item.ks
                           /\ \A k \in DOMAIN item.f : Conforms(item.f[k], data.f[k])
      [] item.t = "arr" -> /\ data.t = "arr"
                           /\ \A j \in DOMAIN data.e : Conforms(item.e[1], data.e[j])
      [] item.t = "str" -> data.t \in {"str", "null"}
      [] item.t = "num" -> data.t \in {"num", "null"}
      [] OTHER -> FALSE

RECURSIVE Filled(_)
\* data holds no null, no empty string, no 0 and no list without entries
Filled(data) ==
    CASE data.t = "obj" -> \A k \in DOMAIN data.f : Filled(data.f[k])
      [] data.t = "arr" -> data.e # <<>> /\ \A j \in DOMAIN data.e : Filled(data.e[j])
      [] OTHER -> Truthy(data)

RECURSIVE HoldsItems(_, _)
\* the children of el are the items of the schema node item: one keyed item
\* per key of an object, in order, and none else; one list; one control
HoldsItems(el, item) ==
    CASE item.t = "obj" ->
            LET keyed == SelectSeq(el.kids, LAMBDA c : c.key # "")
            IN /\ [j \in DOMAIN keyed |-> keyed[j].key] = item.ks
               /\ \A j \in DOMAIN keyed : HoldsItems(keyed[j], item.f[keyed[j].key])
      [] item.t = "arr" ->
            LET lists == SelectSeq(el.kids, LAMBDA c : c.tag = "OL")
            IN /\ Len(lists) = 1
               /\ \A j \in DOMAIN lists[1].kids :
                     HoldsItems(lists[1].kids[j].kids[1], item.e[1])
      [] OTHER ->
            Len(SelectSeq(el.kids, LAMBDA c : c.tag \in {"INPUT", "SELECT"})) = 1

IsPresent(d) == d.t \notin {"undefined", "null"}

\* the initial value of the control at pos as C3 states it
StatedInitial(pos) ==
    LET el == NodeAt(main, pos)
        d == ValueAt(loaded, Place(pos))
        ps == PlaceString(Place(pos))
    IN IF IsPresent(d) THEN ToStr(d)
       ELSE IF el.tag = "SELECT"
            THEN IF selects[ps].def.t = "str" THEN selects[ps].def.s ELSE ""
       ELSE IF ps \in DOMAIN defaults THEN ToStr(defaults[ps])
       ELSE IF el.type = "number" THEN "0" ELSE ""

\* the initial value with the amendment: an empty string of the document
\* counts as absent, and a select without an applicable default shows its
\* first option
AmendedInitial(pos) ==
    LET el == NodeAt(main, pos)
        d == ValueAt(loaded, Place(pos))
        ps == PlaceString(Place(pos))
        options == {el.opts[j] : j \in DOMAIN el.opts}
    IN IF el.type = "number"
       THEN IF IsPresent(d) THEN ToStr(d)
            ELSE IF ps \in DOMAIN defaults /\ Truthy(defaults[ps])
                 THEN ToStr(defaults[ps]) ELSE "0"
       ELSE IF IsPresent(d) /\ d # JStr("") THEN ToStr(d)
       ELSE IF el.tag = "SELECT"
            THEN IF selects[ps].def.t = "str" /\ selects[ps].def.s \in options
                 THEN selects[ps].def.s
                 ELSE IF el.opts # <<>> THEN el.opts[1] ELSE ""
       ELSE IF ps \in DOMAIN defaults /\ Truthy(defaults[ps])
            THEN ToStr(defaults[ps]) ELSE ""

\* C3 as stated: one item per schema key and none for other keys of the
\* document; each terminal field starts with the document's value when it is
\* present, otherwise its default (defaults entry, or select[1] for a
\* select), otherwise an empty text or 0.
C3_MergeRule ==
    Pristine =>
        /\ HoldsItems(main, structure)
        /\ \A pos \in ControlSet : NodeAt(main, pos).value = StatedInitial(pos)

\* C3 amended: as stated, except that for a text or select field an empty
\* string in the document counts as absent, and that a select whose select[1]
\* is not one of its options starts with its first option.
C3_MergeRuleAmended ==
    Pristine =>
        /\ HoldsItems(main, structure)
        /\ \A pos \in ControlSet : NodeAt(main, pos).value = AmendedInitial(pos)

\* a form built from a document with a key outside the schema, a 0, an empty
\* string where a default exists and a select value outside the options
C3_Witness ==
    /\ Pristine
    /\ Get(loaded, "extra") # JUndef
    /\ \E pos \in ControlSet :
          /\ Place(pos) = <<KeySeg("tags"), IdxSeg(0)>>
          /\ ValueAt(loaded, Place(pos)) = JStr("")
          /\ NodeAt(main, pos).value = "x"
    /\ \E pos \in ControlSet :
          /\ Place(pos) = <<KeySeg("box"), KeySeg("limit")>>
          /\ NodeAt(main, pos).value = "0"
    /\ \E pos \in ControlSet :
          /\ Place(pos) = <<KeySeg("mode")>>
          /\ NodeAt(main, pos).value = "zz"

(***************************************************************************)
(* C4.                                                                     *)
(***************************************************************************)
IsPrefix(s, t) == Len(s) <= Len(t) /\ SubSeq(t, 1, Len(s)) = s

\* C4: the form is built only when structure, descriptions, selects and
\* defaults (and the list of configurations and the default configuration)
\* have been fetched and assigned, and the start-up fetches are issued one
\* after the other, in the order structure, descriptions, selects, defaults.
C4_BuiltAfterLoad ==
    /\ (main.kids # <<>> /\ main # LoadingMain) =>
          /\ structure # EmptyObj
          /\ descriptions # <<>>
          /\ selects # <<>>
          /\ defaults # <<>>
          /\ all_configs # <<>>
          /\ current_config # EmptyObj
    /\ IsPrefix(fetchLog, <<"/structure.json", "/descriptions.json",
                            "/selects.json", "/defaults.json", "/configs.json",
                            "/default_input", "/" \o default_config_name>>)
    /\ \A j \in DOMAIN fetchLog :
          \* the j-th fetch is issued when the documents before it are assigned
          /\ j > 1 => structure # EmptyObj
          /\ j > 2 => descriptions # <<>>
          /\ j > 3 => selects # <<>>
          /\ j > 4 => defaults # <<>>

\* start-up is over and the form is in #main
C4_Witness ==
    /\ pc = "ready"
    /\ ev.op = "start"
    /\ main.kids # <<>>
    /\ Len(fetchLog) = 7

(***************************************************************************)
(* C5 - C9: compose and the Open selector.                                 *)
(***************************************************************************)
\* C5: each run of compose sends exactly one POST whose body is the JSON
\* text generateConfig produces from the form at the click; the body is the
\* text of the Output JSON area and of the JSON download link; the response
\* text is then written to the Output SPARQL area.
C5_OnePostPerRun ==
    /\ nposts = clicks
    /\ ev.op = "compose" =>
          /\ posts # <<>>
          /\ posts[Len(posts)].body = JsonText(allInputsToConfigObject(main))
          /\ json_pre.innerText = posts[Len(posts)].body
          /\ json_dl.href = BlobUrl(posts[Len(posts)].body)
    /\ ev.op = "compose answered" =>
          /\ rq_pre.innerText.k = "response"
          /\ rq_pre.innerText.status = ev.status

\* C6: after a compose run whose response has a status other than 200 the
\* Output SPARQL text is the response body, the area has the error class
\* and the download button is hidden; after a run whose response has status
\* 200 the area has no error class, the button is visible and the link holds
\* the response text.
C6_StatusShown ==
    ev.op = "compose answered" =>
        /\ rq_pre.innerText.k = "response"
        /\ rq_pre.innerText.status = ev.status
        /\ IF ev.status # OkStatus
           THEN rq_pre.error /\ rq_dl_btn.display = "none"
           ELSE /\ ~rq_pre.error
                /\ rq_dl_btn.display = ""
                /\ rq_dl.href = BlobUrl(rq_pre.innerText)

\* String(err) of the error a failed fetch rejects with
FetchErrorText == Text("TypeError: Failed to fetch")

\* C7: when the fetch of /compose rejects, compose still ends and reports
\* the failure: error class, hidden download button, and a text that
\* describes the failure.
C7_RejectionReported ==
    ev.op = "compose rejected" =>
        /\ rq_pre.error
        /\ rq_dl_btn.display = "none"
        /\ rq_pre.innerText = FetchErrorText

\* C8: whenever no compose request is pending, the Output SPARQL area shows
\* the response to the request whose body is the JSON shown in the Output
\* JSON area (or the report that this request failed); while the Output JSON
\* area shows no JSON, the Output SPARQL area shows no response.
C8_OutputsAgree ==
    (posts = <<>> /\ rq_pre # Undefined) =>
        IF json_pre.innerText.k = "json"
        THEN \/ /\ rq_pre.innerText.k = "response"
                /\ rq_pre.innerText.body = json_pre.innerText
             \/ rq_pre.innerText.k = "text" /\ rq_pre.error
        ELSE rq_pre.innerText = NewPre.innerText

\* C9: whenever no configuration fetch is pending, the form in #main is the
\* form that was built from the configuration selected in the Open selector.
C9_FormOfSelection ==
    (opens = <<>> /\ i_inp # Undefined) =>
        /\ main # LoadingMain
        /\ shown = i_inp.value

(***************************************************************************)
(* C10.                                                                    *)
(***************************************************************************)
\* the positions of the lists (<ol>) of string or number entries
TerminalLists ==
    {pos \in PositionsBelow(main, <<>>) :
        NodeAt(main, pos).tag = "OL" /\ isSmall(NodeAt(main, pos).item)}

\* the input or select of a list entry (<li>) of such a list
EntryControl(li) ==
    SelectSeq(li.kids[1].kids, LAMBDA c : c.tag \in {"INPUT", "SELECT"})[1]

\* the serialized object holds for the list at pos an array with one
\* element per displayed entry, in order, the value of that entry
ListArrayOk(pos) ==
    LET list == NodeAt(main, pos)
        arr == ValueAt(allInputsToConfigObject(main), Place(pos))
    IN /\ arr.t = "arr"
       /\ Len(arr.e) = Len(list.kids)
       /\ \A j \in DOMAIN list.kids : arr.e[j] = Written(EntryControl(list.kids[j]))

\* the list the last Add or Delete click acted on
ActedList == IF ev.op = "add" THEN ev.pos ELSE SubSeq(ev.pos, 1, Len(ev.pos) - 1)

\* C10 as stated: after an Add or Delete click on a list of string or number
\* entries the serializer returns for it an array with one element per
\* displayed entry, in order and without a hole, whatever the creation
\* counter i of the list is.
C10_ListArray ==
    (ev.op \in {"add", "delete"} /\ ActedList \in TerminalLists)
        => ListArrayOk(ActedList)

\* C10 amended: this holds for every list of string or number entries that
\* displays at least one entry; for a list that displays no entry the
\* serialized object holds no array (the key of the list is absent).
C10_ListArrayNonEmpty ==
    \A pos \in TerminalLists :
        IF NodeAt(main, pos).kids = <<>>
        THEN ValueAt(allInputsToConfigObject(main), Place(pos)) = JUndef
        ELSE ListArrayOk(pos)

\* the first of several entries has been deleted: the list displays fewer
\* entries than its counter i has counted
C10_Witness ==
    /\ ev.op = "delete"
    /\ ActedList \in TerminalLists
    /\ ev.pos[Len(ev.pos)] = 1
    /\ NodeAt(main, ActedList).kids # <<>>
    /\ NodeAt(main, ActedList).i > Len(NodeAt(main, ActedList).kids)
    /\ ListArrayOk(ActedList)

\* for a click after start-up, compose does send one POST with the shown JSON
C5_AfterStartup ==
    (ev.op = "compose" /\ rq_pre # Undefined) =>
        /\ posts # <<>>
        /\ posts[Len(posts)].body = JsonText(allInputsToConfigObject(main))
        /\ json_pre.innerText = posts[Len(posts)].body

(***************************************************************************)
(* C11.                                                                    *)
(***************************************************************************)
\* the option values of a select as the fetched selects document defines them
DefinedOptions(ps) == [j \in DOMAIN SelectsDoc[ps].opts |-> SelectsDoc[ps].opts[j][1]]

\* the options of the select at pos as they follow from the fetched
\* document and the loaded configuration alone: the defined options, and
\* the configuration's own value for this field when it is not one of them
OptionsFromDocument(pos) ==
    LET ps == PlaceString(Place(pos))
        d == ValueAt(loaded, Place(pos))
        defined == DefinedOptions(ps)
    IN IF Truthy(d) /\ d.t = "str" /\ \A j \in DOMAIN defined : defined[j] # d.s
       THEN Append(defined, d.s)
       ELSE defined

\* C11: building the form leaves the fetched selects document unchanged, and
\* the options of every select of a form just built from a configuration
\* are those of the fetched document and of that configuration only.
C11_SelectsKept ==
    /\ selects # <<>> => selects = SelectsDoc
    /\ Pristine =>
          \A pos \in ControlSet :
              NodeAt(main, pos).tag = "SELECT"
                  => NodeAt(main, pos).opts = OptionsFromDocument(pos)

(***************************************************************************)
(* C12.                                                                    *)
(***************************************************************************)
RECURSIVE SchemaAt(_, _)
\* the schema node of a place: item[k] for a key, item[0] for a list entry
SchemaAt(item, place) ==
    IF place = <<>> THEN item
    ELSE IF Head(place).k = "key"
         THEN SchemaAt(Get(item, Head(place).key), Tail(place))
         ELSE SchemaAt(ArrGet(item, 0), Tail(place))

\* C12: a string field of the schema is rendered as a select if and only if
\* selects has an entry for the path string of the field, and as a text
\* input otherwise; a number field is rendered as a number input.
C12_SelectIffEntry ==
    \A pos \in ControlSet :
        LET el == NodeAt(main, pos)
            item == SchemaAt(structure, Place(pos))
            ps == PlaceString(Place(pos))
        IN /\ item.t \in {"str", "num"}
           /\ item.t = "str" =>
                 IF ps \in DOMAIN selects
                 THEN el.tag = "SELECT"
                 ELSE el.tag = "INPUT" /\ el.type = "text"
           /\ item.t = "num" => el.tag = "INPUT" /\ el.type = "number"

\* the form holds a select, a text input and a number input at the top and
\* all three again in list entries, one of them added by a click
C12_Witness ==
    /\ ev.op = "add"
    /\ \E pos \in ControlSet :
          Place(pos) = <<KeySeg("mode")>> /\ NodeAt(main, pos).tag = "SELECT"
    /\ \E pos \in ControlSet :
          Place(pos) = <<KeySeg("name")>> /\ NodeAt(main, pos).type = "text"
    /\ \E pos \in ControlSet :
          /\ Place(pos) = <<KeySeg("pois"), IdxSeg(0), KeySeg("file")>>
          /\ NodeAt(main, pos).tag = "SELECT"
    /\ \E pos \in ControlSet :
          /\ Place(pos) = <<KeySeg("pois"), IdxSeg(0), KeySeg("vals"), IdxSeg(0)>>
          /\ NodeAt(main, pos).type = "number"
    /\ \E pos \in ControlSet :
          /\ Place(pos) = <<KeySeg("tags"), IdxSeg(0)>>
          /\ NodeAt(main, pos).type = "text"

(***************************************************************************)
(* C13.                                                                    *)
(***************************************************************************)
\* the number of options of el with the value v
Occurrences(el, v) == Cardinality({j \in DOMAIN el.opts : el.opts[j] = v})

\* C13: in a form built from a configuration and not edited, a select whose
\* field holds a non-empty string in the configuration has that value
\* selected and serializes to it; when the value is not a defined option it
\* is an additional option, after the defined ones; when it is a defined
\* option, no option with that value is added.
C13_CustomOption ==
    Pristine =>
        \A pos \in ControlSet :
            LET el == NodeAt(main, pos)
                d == ValueAt(loaded, Place(pos))
                defined == DefinedOptions(PlaceString(Place(pos)))
            IN (el.tag = "SELECT" /\ d.t = "str" /\ d.s # "") =>
                  /\ el.value = d.s
                  /\ ValueAt(allInputsToConfigObject(main), Place(pos)) = d
                  /\ Occurrences(el, d.s) = 1
                  /\ SubSeq(el.opts, 1, Len(defined)) = defined
                  /\ (\E j \in DOMAIN defined : defined[j] = d.s)
                        <=> (\E j \in 1..Len(defined) : el.opts[j] = d.s)

\* z_compose.json is shown: its mode "zz" and the file "c.rq" of its list
\* entry are additional options, selected and serialized
C13_Witness ==
    /\ Pristine
    /\ ev.op = "opened"
    /\ \E pos \in ControlSet :
          /\ Place(pos) = <<KeySeg("mode")>>
          /\ NodeAt(main, pos).value = "zz"
          /\ NodeAt(main, pos).opts = Append(DefinedOptions("mode"), "zz")
    /\ \E pos \in ControlSet :
          /\ Place(pos) = <<KeySeg("pois"), IdxSeg(0), KeySeg("file")>>
          /\ NodeAt(main, pos).value = "c.rq"
          /\ Get(ArrGet(Get(allInputsToConfigObject(main), "pois"), 0), "file")
                = JStr("c.rq")

(***************************************************************************)
(* C14.                                                                    *)
(***************************************************************************)
\* C14: in the serialized object a number field holds Number(value) of its
\* input and a text or select field its string value, except that a falsy
\* value is written as null: the empty text, the empty selection, and the
\* number 0 (an empty number input included).
C14_FalsyIsNull ==
    \A pos \in ControlSet :
        LET el == NodeAt(main, pos)
            got == ValueAt(allInputsToConfigObject(main), Place(pos))
        IN IF el.type = "number"
           THEN IF el.value = "" \/ Number(el.value) = 0
                THEN got = JNull
                ELSE got = JNum(Number(el.value))
           ELSE IF el.value = "" THEN got = JNull ELSE got = JStr(el.value)

\* a number input showing 0, an emptied number input, a number input with a
\* number, an empty text and a select with a chosen option, all serialized
C14_Witness ==
    LET res == allInputsToConfigObject(main)
    IN /\ \E pos \in ControlSet :
             NodeAt(main, pos).type = "number" /\ NodeAt(main, pos).value = "0"
       /\ \E pos \in ControlSet :
             NodeAt(main, pos).type = "number" /\ NodeAt(main, pos).value = ""
       /\ \E pos \in ControlSet :
             /\ NodeAt(main, pos).type = "number"
             /\ ValueAt(res, Place(pos)).t = "num"
       /\ Get(res, "name") = JNull
       /\ Get(res, "mode").t = "str"

(***************************************************************************)
(* C15.                                                                    *)
(***************************************************************************)
\* the positions of all lists (<ol>) of the form
Lists == {pos \in PositionsBelow(main, <<>>) : NodeAt(main, pos).tag = "OL"}

\* the controls of the form below the element at pos
ControlsUnder(pos) ==
    {p \in ControlSet : Len(p) > Len(pos) /\ SubSeq(p, 1, Len(pos)) = pos}

\* C15: in a form built from a configuration and not edited, a list whose
\* value in the configuration is an array of n elements shows exactly n
\* entries, the k-th entry holding the fields built from the k-th element;
\* a list without a value in the configuration shows no entry.
C15_EntriesFromArray ==
    Pristine =>
        \A pos \in Lists :
            LET list == NodeAt(main, pos)
                d == ValueAt(loaded, Place(pos))
            IN /\ Len(list.kids) = IF d.t = "arr" THEN Len(d.e) ELSE 0
               /\ \A k \in DOMAIN list.kids :
                     /\ list.kids[k].tag = "LI"
                     /\ HoldsItems(list.kids[k].kids[1], list.item)
                     /\ ControlsUnder(Append(pos, k)) # {}
                     /\ \A p \in ControlsUnder(Append(pos, k)) :
                           /\ SubSeq(Place(p), 1, Len(Place(pos)) + 1)
                                 = Append(Place(pos), IdxSeg(k - 1))
                           /\ NodeAt(main, p).value = AmendedInitial(p)
                     /\ (isSmall(list.item) /\ Truthy(d.e[k]))
                           => Written(EntryControl(list.kids[k])) = d.e[k]

\* a form built from a configuration with a list of two different strings
\* and a list of one object that holds a list of one number
C15_Witness ==
    /\ Pristine
    /\ ev.op = "opened"
    /\ \E pos \in Lists :
          /\ ValueAt(loaded, Place(pos)) = JArr(<<JStr("u"), JStr("v")>>)
          /\ Len(NodeAt(main, pos).kids) = 2
          /\ Written(EntryControl(NodeAt(main, pos).kids[1])) = JStr("u")
          /\ Written(EntryControl(NodeAt(main, pos).kids[2])) = JStr("v")
    /\ \E pos \in Lists :
          /\ Place(pos) = <<KeySeg("pois"), IdxSeg(0), KeySeg("vals")>>
          /\ Len(NodeAt(main, pos).kids) = 1

\* a form built from a configuration (z_compose.json) in which a list has
\* no value: the list shows no entry
C15_NoValueWitness ==
    /\ Pristine
    /\ \E pos \in Lists :
          /\ Place(pos) = <<KeySeg("pois"), IdxSeg(0), KeySeg("vals")>>
          /\ ValueAt(loaded, Place(pos)) = JUndef
          /\ NodeAt(main, pos).kids = <<>>

(***************************************************************************)
(* C16.                                                                    *)
(***************************************************************************)
\* the value a control el with path string ps starts with when it is built
\* from the data d (lines 287-297, 348-353, 357-366)
InitialFrom(el, d, ps) ==
    IF el.type = "number"
    THEN IF IsPresent(d) THEN ToStr(d)
         ELSE IF ps \in DOMAIN defaults /\ Truthy(defaults[ps])
              THEN ToStr(defaults[ps]) ELSE "0"
    ELSE IF Truthy(d) THEN ToStr(d)
    ELSE IF el.tag = "SELECT"
         THEN IF SelectsDoc[ps].def.t = "str"
                 /\ \E j \in DOMAIN el.opts : el.opts[j] = SelectsDoc[ps].def.s
              THEN SelectsDoc[ps].def.s
              ELSE IF el.opts # <<>> THEN el.opts[1] ELSE ""
    ELSE IF ps \in DOMAIN defaults /\ Truthy(defaults[ps])
         THEN ToStr(defaults[ps]) ELSE ""

\* the step is a click on an Add button
IsAddStep == ev'.op = "add" /\ actions' = actions + 1

\* what C16 states about a click on the Add button of the list at ev'.pos
AddedOneEntry ==
    LET pos == ev'.pos
        old == NodeAt(main, pos)
        new == NodeAt(main', pos)
        n == Len(old.kids)
        lp == PlaceBelow(main, pos, TRUE)
        dfl == Lookup(defaults, PlaceString(lp))
        all == Controls(main')
        fresh == {all[j] : j \in DOMAIN all} \ ControlSet
    IN /\ old.tag = "OL"
       /\ Len(new.kids) = n + 1
       /\ SubSeq(new.kids, 1, n) = old.kids
       /\ ReplaceAt(main', pos, old) = main
       /\ HoldsItems(new.kids[n + 1].kids[1], old.item)
       /\ fresh # {}
       /\ \A p \in fresh :
             LET pl == PlaceBelow(main', p, TRUE)
             IN /\ SubSeq(p, 1, Len(pos) + 1) = Append(pos, n + 1)
                /\ SubSeq(pl, 1, Len(lp) + 1) = Append(lp, IdxSeg(n))
                /\ NodeAt(main', p).value
                      = InitialFrom(NodeAt(main', p),
                                    ValueAt(dfl, SubSeq(pl, Len(lp) + 2, Len(pl))),
                                    PlaceString(pl))

\* C16: a click on the Add button of a list appends exactly one entry after
\* the last entry of that list, built from the defaults entry for the path
\* string of the list; the entries that existed before and every other
\* element of the form are unchanged.
C16_AddAppendsOne == [][IsAddStep => AddedOneEntry]_vars

\* an entry was added after the entry of a list of objects; it holds the
\* file and the inner list entry of the defaults entry of the list
C16_Witness ==
    /\ ev.op = "add"
    /\ Place(ev.pos) = <<KeySeg("pois")>>
    /\ Len(NodeAt(main, ev.pos).kids) = 2
    /\ LET pois == Get(allInputsToConfigObject(main), "pois")
       IN /\ Get(ArrGet(pois, 1), "file") = JStr("a.rq")
          /\ Get(ArrGet(pois, 1), "vals") = JArr(<<JNum(1)>>)
          /\ ArrGet(pois, 0) = ArrGet(Get(loaded, "pois"), 0)

(***************************************************************************)
(* C17.                                                                    *)
(***************************************************************************)
\* the step is a click on a Delete button
IsDeleteStep == ev'.op = "delete" /\ actions' = actions + 1

\* what C17 states about a click on the Delete button of the entry at ev'.pos
RemovedThatEntry ==
    LET pos == ev'.pos
        k == pos[Len(pos)]
        lp == SubSeq(pos, 1, Len(pos) - 1)
        old == NodeAt(main, lp)
        new == NodeAt(main', lp)
    IN /\ NodeAt(main, pos).tag = "LI"
       /\ new.kids = SubSeq(old.kids, 1, k - 1) \o SubSeq(old.kids, k + 1, Len(old.kids))
       /\ ReplaceAt(main', lp, old) = main
       /\ selects' = selects

\* C17: a click on the Delete button of a list entry removes exactly that
\* entry with everything nested in it; the remaining entries of the list
\* keep their values and their order, and nothing else of the form changes.
C17_DeleteRemovesOne == [][IsDeleteStep => RemovedThatEntry]_vars

\* the first of two entries was deleted from a list whose form also holds a
\* list of objects: the second entry is left, the other list is as loaded
C17_Witness ==
    /\ ev.op = "delete"
    /\ Place(SubSeq(ev.pos, 1, Len(ev.pos) - 1)) = <<KeySeg("tags")>>
    /\ ev.pos[Len(ev.pos)] = 1
    /\ Get(loaded, "tags") = JArr(<<JStr("u"), JStr("v")>>)
    /\ Get(allInputsToConfigObject(main), "tags") = JArr(<<JStr("v")>>)
    /\ Get(allInputsToConfigObject(main), "pois") = Get(loaded, "pois")

\* an entry that holds a list was deleted with everything nested in it
C17_NestedWitness ==
    /\ ev.op = "delete"
    /\ Place(SubSeq(ev.pos, 1, Len(ev.pos) - 1)) = <<KeySeg("pois")>>
    /\ Get(loaded, "pois") # JArr(<<>>)
    /\ Get(allInputsToConfigObject(main), "pois") = JUndef
    /\ Get(allInputsToConfigObject(main), "tags") = Get(loaded, "tags")

=============================================================================
